---- MODULE Spec2Model ----
(***************************************************************************)
(* Model of the GridLAB-D model editing engine:                            *)
(*   runtime/gridlabd_edit.py  (class GridlabdModel, the command editor)   *)
(*   runtime/gridlabd_json.py  (class GldModel, the JSON model API)        *)
(* Both classes edit the same JSON model document, held here in DATA.      *)
(* A Python dict is a sequence of <<key, value>> pairs in insertion order. *)
(* The entities stored in the collections (a class, an object, a global)   *)
(* are functions whose DOMAIN is the set of keys present in the dict.      *)
(* Every method is a pure operator from (model, arguments) to a record     *)
(* [data, result]: result is "ok" or the name of the exception raised.     *)
(***************************************************************************)
EXTENDS Integers, Sequences, FiniteSets, TLC

VARIABLES DATA, before, call, assigned

vars == <<DATA, before, call, assigned>>

(***************************************************************************)
(* Bounds of the explored inputs.                                          *)
(***************************************************************************)
\* longest parent chain walked before Python's recursion limit is reported
MaxChain == 4

\* longest record kept of the ids insert_object has assigned
MaxAssigned == 3

ObjNames == {"n1", "n2"}
ModNames == {"powerflow", "non_existent"}
GlobalNames == {"g", "h"}

(***************************************************************************)
(* Python dict operations.                                                 *)
(***************************************************************************)
Keys(d) == {d[i][1] : i \in DOMAIN d}

Has(d, k) == \E i \in DOMAIN d : d[i][1] = k

Get(d, k) == d[CHOOSE i \in DOMAIN d : d[i][1] = k][2]

Put(d, k, v) ==
    IF Has(d, k) THEN [i \in DOMAIN d |-> IF d[i][1] = k THEN <<k, v>> ELSE d[i]]
    ELSE Append(d, <<k, v>>)

Del(d, k) == SelectSeq(d, LAMBDA e : e[1] # k)

RECURSIVE Update(_, _)
Update(d, e) == IF e = <<>> THEN d ELSE Update(Put(d, Head(e)[1], Head(e)[2]), Tail(e))

\* the keys of an entity, in the order its dict lists them
RECURSIVE KeySeq(_, _)
KeySeq(f, order) ==
    IF order = <<>> THEN <<>>
    ELSE (IF Head(order) \in DOMAIN f THEN <<Head(order)>> ELSE <<>>) \o KeySeq(f, Tail(order))

ObjKeyOrder == <<"class", "id", "parent", "phases">>
ClassKeyOrder == <<"module", "parent", "phases", "rating", "id">>

Ok(d) == [data |-> d, result |-> "ok"]
Raise(d, e) == [data |-> d, result |-> e]

(***************************************************************************)
(* The parts of the model document no operation changes.                   *)
(***************************************************************************)
Types == {"char1024", "set", "enumeration", "object", "double", "int32", "string"}

Header == [id |-> "int32", class |-> "string", name |-> "string", parent |-> "object"]

AccessLevels == {"REFERENCE", "PUBLIC", "PRIVATE", "PROTECTED", "HIDDEN"}

(***************************************************************************)
(* The external engine: gridlabd --modhelp NAME.  It provides the module   *)
(* powerflow and exits non-zero for any other name.                        *)
(***************************************************************************)
EngineProvides == {"powerflow"}

\* names for which the engine exits with 0 and writes a model without the module
EngineHollow == {"hollow"}

EngineExit(name) == IF name \in EngineProvides \cup EngineHollow THEN 0 ELSE 1

EnginePayload(name) ==
    IF name \in EngineProvides
    THEN [modules |-> << <<"powerflow", [major |-> "4", minor |-> "3"]>> >>,
          classes |-> << <<"node",  [module |-> "powerflow",
                                     phases |-> [type |-> "set", flags |-> <<"REQUIRED">>]]>>,
                         <<"meter", [module |-> "powerflow", parent |-> "node",
                                     rating |-> [type |-> "double"]]>> >>]
    ELSE [modules |-> <<>>, classes |-> <<>>]

\* GridlabdModel.DATA before create or read has loaded a model
None == [DATA |-> "None"]

\* the value None of a keyword
NoneValue == "None"

\* GldModel(): a fresh model has no module, class or object
NewModel ==
    [modules |-> <<>>, classes |-> <<>>, objects |-> <<>>,
     globals |-> << <<"version", [type |-> "char1024", access |-> "REFERENCE", value |-> "4.3"]>> >>]

(***************************************************************************)
(* SchemaCatalog / ReferenceIndex of GridlabdModel.                        *)
(***************************************************************************)
\* a value returned or an exception raised
Val(v) == [exc |-> "none", val |-> v]
Exc(e) == [exc |-> e, val |-> "none"]

RECURSIVE get_property_type_rec(_, _, _, _)
get_property_type_rec(data, classname, propname, depth) ==
    IF propname \in DOMAIN Header THEN Val(Header[propname])
    ELSE IF depth > MaxChain THEN Exc("RecursionError")
    ELSE IF ~Has(data.classes, classname) THEN Exc("GridlabdMissingValue")
    ELSE LET classdata == Get(data.classes, classname) IN
         IF propname \notin DOMAIN classdata THEN
            IF "parent" \in DOMAIN classdata
            THEN get_property_type_rec(data, classdata.parent, propname, depth + 1)
            ELSE Exc("GridlabdMissingValue")
         ELSE IF propname \in {"module", "parent"} \/ "type" \notin DOMAIN classdata[propname]
              THEN Exc("GridlabdModelError")
              ELSE Val(classdata[propname].type)

get_property_type(data, classname, propname) ==
    get_property_type_rec(data, classname, propname, 0)

\* the (class, property, value) triples in the order the scan visits them
RECURSIVE ScanOrder(_)
ScanOrder(objects) ==
    IF objects = <<>> THEN <<>>
    ELSE LET values == Head(objects)[2]
             keys == KeySeq(values, ObjKeyOrder)
         IN [i \in DOMAIN keys |-> <<values.class, keys[i], values[keys[i]]>>]
            \o ScanOrder(Tail(objects))

RECURSIVE ReferenceScan(_, _, _, _, _)
ReferenceScan(data, scan, name, limit, refcount) ==
    IF scan = <<>> THEN Val(refcount)
    ELSE LET t == get_property_type(data, Head(scan)[1], Head(scan)[2]) IN
         IF t.exc # "none" THEN t
         ELSE IF t.val = "object" /\ Head(scan)[3] = name
              THEN IF limit # 0 /\ refcount + 1 >= limit THEN Val(refcount + 1)
                   ELSE ReferenceScan(data, Tail(scan), name, limit, refcount + 1)
              ELSE ReferenceScan(data, Tail(scan), name, limit, refcount)

\* limit = 0 stands for limit=None (no limit)
get_object_reference_count(data, name, limit) ==
    ReferenceScan(data, ScanOrder(data.objects), name, limit, 0)

RECURSIVE CountUpTo(_, _, _)
CountUpTo(hits, limit, refcount) ==
    IF hits = <<>> THEN [count |-> refcount, full |-> FALSE]
    ELSE IF Head(hits)
         THEN IF limit # 0 /\ refcount + 1 >= limit THEN [count |-> refcount + 1, full |-> TRUE]
              ELSE CountUpTo(Tail(hits), limit, refcount + 1)
         ELSE CountUpTo(Tail(hits), limit, refcount)

\* a count that looks at the objects only
class_reference_count_objects_only(data, name, limit) ==
    LET o == data.objects
    IN CountUpTo([i \in DOMAIN o |-> "class" \in DOMAIN o[i][2] /\ o[i][2].class = name],
                 limit, 0).count

get_class_reference_count(data, name, limit) ==
    LET c == data.classes
        o == data.objects
        first == CountUpTo([i \in DOMAIN c |-> "parent" \in DOMAIN c[i][2] /\ c[i][2].parent = name],
                           limit, 0)
    IN IF first.full THEN first.count
       ELSE CountUpTo([i \in DOMAIN o |-> "class" \in DOMAIN o[i][2] /\ o[i][2].class = name],
                      limit, first.count).count

\* GldModel.isa_class: walks to the class without a parent and compares there
RECURSIVE isa_class_rec(_, _, _, _)
isa_class_rec(data, name, kindof, depth) ==
    IF depth > MaxChain THEN Exc("RecursionError")
    ELSE IF ~Has(data.classes, name) THEN Exc("KeyError")
    ELSE LET oclass == Get(data.classes, name) IN
         IF "parent" \notin DOMAIN oclass THEN Val(name = kindof)
         ELSE isa_class_rec(data, oclass.parent, kindof, depth + 1)

GldModel_isa_class(data, name, kindof) == isa_class_rec(data, name, kindof, 0)

\* own REQUIRED properties; the recursive call names two undefined globals
get_required_properties(data, oclass) ==
    IF ~Has(data.classes, oclass) THEN Exc("KeyError")
    ELSE LET classdata == Get(data.classes, oclass)
             keys == KeySeq(classdata, ClassKeyOrder)
             required == SelectSeq(keys, LAMBDA key :
                            /\ key \notin {"module", "parent"}
                            /\ "flags" \in DOMAIN classdata[key]
                            /\ \E i \in DOMAIN classdata[key].flags :
                                  classdata[key].flags[i] = "REQUIRED")
         IN IF "parent" \in DOMAIN classdata THEN Exc("NameError") ELSE Val(required)

(***************************************************************************)
(* GridlabdModel: the handlers command() routes to.  kwargs is the keyword *)
(* dict of the call, a function from the keywords given to their values.   *)
(***************************************************************************)
\* the decimal text of an id
IdText(id) == <<"0", "1", "2", "3">>[id + 1]

\* f"{oclass}:{id}"
SynthName(oclass, id) ==
    CASE oclass = "node"  -> <<"node:0", "node:1", "node:2", "node:3">>[id + 1]
      [] oclass = "meter" -> <<"meter:0", "meter:1", "meter:2", "meter:3">>[id + 1]
      [] OTHER            -> <<"custom:0", "custom:1", "custom:2", "custom:3">>[id + 1]

\* insert_object calls get_required_properties(classes,oclass) as a global
\* function; gridlabd_edit.py defines the name only as a method
global_get_required_properties(data, oclass) == Exc("NameError")

\* kwargs["id"] = len(objects): the ids an insert assigns, none when the
\* class checks raise first
insert_object_id(data, kwargs) ==
    IF "class" \notin DOMAIN kwargs \/ ~Has(data.classes, kwargs.class) THEN <<>>
    ELSE <<Len(data.objects)>>

\* the ids assigned by a command: those of the insert_object it routes to
command_id(data, args, kwargs) ==
    IF data # None /\ args = <<"insert", "object">> /\ DOMAIN kwargs # {}
    THEN insert_object_id(data, kwargs)
    ELSE <<>>

\* mutant: the name is not looked up among the objects of the model
insert_object_no_collision_check(data, kwargs) ==
    IF "class" \notin DOMAIN kwargs THEN Raise(data, "GridlabdModelError")
    ELSE IF ~Has(data.classes, kwargs.class) THEN Raise(data, "GridlabdMissingValue")
    ELSE Raise(data, global_get_required_properties(data, kwargs.class).exc)

\* mutant: the object is stored before the required properties are resolved
insert_object_stores_first(data, kwargs) ==
    IF "class" \notin DOMAIN kwargs THEN Raise(data, "GridlabdModelError")
    ELSE IF ~Has(data.classes, kwargs.class) THEN Raise(data, "GridlabdMissingValue")
    ELSE LET id == Len(data.objects)
             oname == IF "name" \in DOMAIN kwargs THEN kwargs.name
                      ELSE SynthName(kwargs.class, id)
             stored == [k \in ((DOMAIN kwargs) \ {"name"}) \cup {"id"} |->
                           IF k = "id" THEN IdText(id) ELSE kwargs[k]]
             required == global_get_required_properties(data, kwargs.class)
             inserted == [data EXCEPT !.objects = Put(@, oname, stored)]
         IN IF Has(data.objects, oname) THEN Raise(data, "GridlabdEntityExists")
            ELSE IF required.exc # "none" THEN Raise(inserted, required.exc)
            ELSE IF \E i \in DOMAIN required.val : required.val[i] \notin DOMAIN stored
                 THEN Raise(inserted, "GridlabdMissingValue")
                 ELSE Ok(inserted)

GridlabdModel_insert_object(data, kwargs) ==
    IF "class" \notin DOMAIN kwargs THEN Raise(data, "GridlabdModelError")
    ELSE IF ~Has(data.classes, kwargs.class) THEN Raise(data, "GridlabdMissingValue")
    ELSE LET id == Len(data.objects)
             oname == IF "name" \in DOMAIN kwargs THEN kwargs.name
                      ELSE SynthName(kwargs.class, id)
             stored == [k \in ((DOMAIN kwargs) \ {"name"}) \cup {"id"} |->
                           IF k = "id" THEN IdText(id) ELSE kwargs[k]]
             required == global_get_required_properties(data, kwargs.class)
         IN IF Has(data.objects, oname) THEN Raise(data, "GridlabdEntityExists")
            ELSE IF required.exc # "none" THEN Raise(data, required.exc)
            ELSE IF \E i \in DOMAIN required.val : required.val[i] \notin DOMAIN stored
                 THEN Raise(data, "GridlabdMissingValue")
                 ELSE Ok([data EXCEPT !.objects = Put(@, oname, stored)])

\* mutant: the reference count is compared with 1 instead of 0
delete_object_off_by_one(data, kwargs) ==
    IF "name" \notin DOMAIN kwargs THEN Raise(data, "GridlabdInvalidCommand")
    ELSE LET refcount == get_object_reference_count(data, kwargs.name, 1) IN
         IF refcount.exc # "none" THEN Raise(data, refcount.exc)
         ELSE IF refcount.val > 1 THEN Raise(data, "GridlabdEntityInUse")
         ELSE IF ~Has(data.objects, kwargs.name) THEN Raise(data, "GridlabdNoEntity")
         ELSE Ok([data EXCEPT !.objects = Del(@, kwargs.name)])

GridlabdModel_delete_object(data, kwargs) ==
    IF "name" \notin DOMAIN kwargs THEN Raise(data, "GridlabdInvalidCommand")
    ELSE LET refcount == get_object_reference_count(data, kwargs.name, 1) IN
         IF refcount.exc # "none" THEN Raise(data, refcount.exc)
         ELSE IF refcount.val > 0 THEN Raise(data, "GridlabdEntityInUse")
         ELSE IF ~Has(data.objects, kwargs.name) THEN Raise(data, "GridlabdNoEntity")
         ELSE Ok([data EXCEPT !.objects = Del(@, kwargs.name)])

\* a delete that does not count the references to the class
delete_class_unchecked(data, kwargs) ==
    IF "name" \notin DOMAIN kwargs THEN Raise(data, "GridlabdInvalidCommand")
    ELSE IF ~Has(data.classes, kwargs.name) THEN Raise(data, "GridlabdNoEntity")
    ELSE Ok([data EXCEPT !.classes = Del(@, kwargs.name)])

GridlabdModel_delete_class(data, kwargs) ==
    IF "name" \notin DOMAIN kwargs THEN Raise(data, "GridlabdInvalidCommand")
    ELSE IF ~Has(data.classes, kwargs.name) THEN Raise(data, "GridlabdNoEntity")
    ELSE IF get_class_reference_count(data, kwargs.name, 1) > 0
         THEN Raise(data, "GridlabdEntityInUse")
         ELSE Ok([data EXCEPT !.classes = Del(@, kwargs.name)])

\* kwargs["keywords"] is the text split at "," and each item split at ":"
RECURSIVE ParseKeywords(_, _)
ParseKeywords(items, keywords) ==
    IF items = <<>> THEN Val(keywords)
    ELSE IF Len(Head(items)) < 2 THEN Exc("IndexError")
    ELSE ParseKeywords(Tail(items), Put(keywords, Head(items)[1], Head(items)[2]))

GridlabdModel_insert_global(data, kwargs) ==
    IF "name" \notin DOMAIN kwargs THEN Raise(data, "GridlabdMissingValue")
    ELSE LET name == kwargs.name
             gtype == IF "type" \notin DOMAIN kwargs THEN "char1024" ELSE kwargs.type
             access == IF "access" \notin DOMAIN kwargs THEN "PUBLIC" ELSE kwargs.access
         IN IF gtype \notin Types THEN Raise(data, "GridlabdInvalidValue")
            ELSE IF access \notin AccessLevels THEN Raise(data, "GridlabdInvalidValue")
            ELSE IF "values" \in DOMAIN kwargs /\ "value" \notin DOMAIN kwargs
                 THEN Raise(data, "KeyError")
            ELSE IF Has(data.globals, name) THEN Raise(data, "GridlabdEntityExists")
            ELSE LET value == IF "values" \notin DOMAIN kwargs THEN "" ELSE kwargs.value
                     entry == [type |-> gtype, access |-> access, value |-> value]
                     stored == [data EXCEPT !.globals = Put(@, name, entry)]
                 IN IF gtype \notin {"set", "enumeration"} THEN Ok(stored)
                    ELSE IF "keywords" \notin DOMAIN kwargs
                         THEN Raise(stored, "GridlabdMissingValue")
                    ELSE LET keywords == ParseKeywords(kwargs.keywords, <<>>) IN
                         IF keywords.exc # "none" THEN Raise(stored, keywords.exc)
                         ELSE Ok([data EXCEPT !.globals =
                                    Put(@, name, [type |-> gtype, access |-> access,
                                                  value |-> value, keywords |-> keywords.val])])

\* a non-zero exit reaches a raise statement that formats the undefined name
\* `command`, so the error raised is NameError
\* an import that puts the payload in the place of the classes
insert_module_replaces(data, kwargs) ==
    IF "name" \notin DOMAIN kwargs THEN Raise(data, "KeyError")
    ELSE IF EngineExit(kwargs.name) # 0 THEN Raise(data, "NameError")
    ELSE LET module == EnginePayload(kwargs.name) IN
         Ok([data EXCEPT !.modules = Update(@, module.modules), !.classes = module.classes])

GridlabdModel_insert_module(data, kwargs) ==
    IF "name" \notin DOMAIN kwargs THEN Raise(data, "KeyError")
    ELSE IF EngineExit(kwargs.name) # 0 THEN Raise(data, "NameError")
    ELSE LET module == EnginePayload(kwargs.name) IN
         Ok([data EXCEPT !.modules = Update(@, module.modules),
                         !.classes = Update(@, module.classes)])

(***************************************************************************)
(* GridlabdModel.command: the dispatcher.                                  *)
(***************************************************************************)
VALID_COMMANDS ==
    [create |-> [input |-> 0, args |-> 1, kwargs |-> 1],
     delete |-> [input |-> 1, args |-> 2, kwargs |-> 1],
     insert |-> [input |-> 1, args |-> 2, kwargs |-> 1],
     search |-> [input |-> 1, args |-> 2, kwargs |-> 1],
     script |-> [input |-> 1, args |-> 1, kwargs |-> 1],
     update |-> [input |-> 1, args |-> 2, kwargs |-> 1]]

Components == {"class", "filter", "global", "module", "object", "schedule"}

\* the methods "_".join(args[0:nargs]) can name
NotImplemented ==
    {<<"delete", "filter">>, <<"delete", "global">>, <<"delete", "module">>,
     <<"delete", "schedule">>, <<"insert", "class">>, <<"insert", "filter">>,
     <<"insert", "schedule">>, <<"update", "class">>, <<"update", "filter">>,
     <<"update", "module">>, <<"update", "object">>, <<"update", "schedule">>}

Methods ==
    NotImplemented \cup
    {<<"create">>, <<"script">>, <<"delete", "class">>, <<"delete", "object">>,
     <<"insert", "global">>, <<"insert", "module">>, <<"insert", "object">>}

\* create: isempty is not a name of the module, so a name other than None
\* raises; with None the engine writes untitled.json and the model is loaded
GridlabdModel_create(data, kwargs) ==
    IF "name" \notin DOMAIN kwargs THEN Raise(data, "GridlabdMissingValue")
    ELSE IF kwargs.name # NoneValue THEN Raise(data, "NameError")
    ELSE Ok(NewModel)

\* the handler, called with the remaining arguments and the keywords
Handler(data, fname, kwargs) ==
    CASE fname = <<"create">> -> GridlabdModel_create(data, kwargs)
      [] fname = <<"delete", "class">>  -> GridlabdModel_delete_class(data, kwargs)
      [] fname = <<"delete", "object">> -> GridlabdModel_delete_object(data, kwargs)
      [] fname = <<"insert", "global">> -> GridlabdModel_insert_global(data, kwargs)
      [] fname = <<"insert", "module">> -> GridlabdModel_insert_module(data, kwargs)
      [] fname = <<"insert", "object">> -> GridlabdModel_insert_object(data, kwargs)
      [] fname = <<"script">> ->
            IF "name" \notin DOMAIN kwargs THEN Raise(data, "GridlabdMissingValue")
            ELSE Raise(data, "FileNotFoundError")
      [] OTHER -> Raise(data, "NotImplementedError")

\* the number the message of a rejected command reports as missing:
\* nargs-len(args) argument(s), else nkwds-len(kwargs) keyword(s)
command_deficit(args, kwargs) ==
    LET cmd == VALID_COMMANDS[args[1]] IN
    IF Len(args) < cmd.args THEN cmd.args - Len(args)
    ELSE cmd.kwargs - Cardinality(DOMAIN kwargs)

\* mutant: the number of keywords is not compared with the table
command_no_keyword_check(data, args, kwargs) ==
    IF Len(args) = 0 THEN Raise(data, "GridlabdInvalidCommand")
    ELSE IF args[1] \notin DOMAIN VALID_COMMANDS THEN Raise(data, "GridlabdInvalidCommand")
    ELSE LET cmd == VALID_COMMANDS[args[1]]
             fname == SubSeq(args, 1, cmd.args)
         IN IF Len(args) < cmd.args THEN Raise(data, "GridlabdInvalidCommand")
            ELSE IF fname \notin Methods THEN Raise(data, "AttributeError")
            ELSE IF data # None /\ cmd.input = 0 THEN Raise(data, "GridlabdInvalidCommand")
            ELSE IF data = None /\ cmd.input = 1 THEN Raise(data, "GridlabdInvalidCommand")
            ELSE Handler(data, fname, kwargs)

GridlabdModel_command(data, args, kwargs) ==
    IF Len(args) = 0 THEN Raise(data, "GridlabdInvalidCommand")
    ELSE IF args[1] \notin DOMAIN VALID_COMMANDS THEN Raise(data, "GridlabdInvalidCommand")
    ELSE LET cmd == VALID_COMMANDS[args[1]]
             fname == SubSeq(args, 1, cmd.args)
         IN IF Len(args) < cmd.args THEN Raise(data, "GridlabdInvalidCommand")
            ELSE IF Cardinality(DOMAIN kwargs) < cmd.kwargs
                 THEN Raise(data, "GridlabdInvalidCommand")
            ELSE IF fname \notin Methods THEN Raise(data, "AttributeError")
            ELSE IF data # None /\ cmd.input = 0 THEN Raise(data, "GridlabdInvalidCommand")
            ELSE IF data = None /\ cmd.input = 1 THEN Raise(data, "GridlabdInvalidCommand")
            ELSE Handler(data, fname, kwargs)

(***************************************************************************)
(* GldModel: the JSON model API.  With no_exception=True a method returns  *)
(* None or False where it would raise; the model is left the same way, so  *)
(* result names the exception in both cases.                               *)
(***************************************************************************)
GldModel_add_module(data, name) ==
    IF Has(data.modules, name) THEN Ok(data)
    ELSE IF EngineExit(name) # 0 THEN Raise(data, "GldException")
    ELSE LET result == EnginePayload(name)
             merged == [data EXCEPT !.modules = Update(@, result.modules),
                                    !.classes = Update(@, result.classes)]
         IN IF Has(merged.modules, name) THEN Ok(merged) ELSE Raise(merged, "KeyError")

\* data = self.data["objects"]["name"] reads the key "name", whatever name is;
\* GldClass has no attribute items
GldModel_delete_object(data, name, found) ==
    IF ~Has(data.objects, "name") THEN Raise(data, "KeyError")
    ELSE LET objdata == Get(data.objects, "name") IN
         IF "class" \notin DOMAIN objdata \/ ~Has(data.classes, objdata.class)
         THEN Raise(data, "KeyError")
         ELSE Raise(data, "AttributeError")

RECURSIVE delete_class_loop(_, _, _, _)
delete_class_loop(data, keys, name, found) ==
    IF keys = <<>>
    THEN IF Has(data.classes, name) THEN Ok([data EXCEPT !.classes = Del(@, name)])
         ELSE Raise(data, "KeyError")
    ELSE LET key == Head(keys) IN
         IF ~Has(data.objects, key) \/ "class" \notin DOMAIN Get(data.objects, key)
         THEN Raise(data, "KeyError")
         ELSE IF Get(data.objects, key).class # name
              THEN delete_class_loop(data, Tail(keys), name, found)
         ELSE IF found = "delete"
              THEN LET r == GldModel_delete_object(data, key, "fail") IN
                   IF r.result # "ok" THEN r
                   ELSE delete_class_loop(r.data, Tail(keys), name, found)
         ELSE IF found # "ignore" THEN Raise(data, "GldException")
         ELSE delete_class_loop(data, Tail(keys), name, found)

GldModel_delete_class(data, name, found) ==
    delete_class_loop(data, [i \in DOMAIN data.objects |-> data.objects[i][1]], name, found)

RECURSIVE delete_module_loop(_, _, _, _)
delete_module_loop(data, keys, name, found) ==
    IF keys = <<>>
    THEN IF Has(data.modules, name) THEN Ok([data EXCEPT !.modules = Del(@, name)])
         ELSE Raise(data, "KeyError")
    ELSE LET key == Head(keys) IN
         IF ~Has(data.classes, key) \/ "module" \notin DOMAIN Get(data.classes, key)
         THEN Raise(data, "KeyError")
         ELSE IF Get(data.classes, key).module # name
              THEN delete_module_loop(data, Tail(keys), name, found)
         ELSE IF found = "delete"
              THEN LET r == GldModel_delete_class(data, key, "fail") IN
                   IF r.result # "ok" THEN r
                   ELSE delete_module_loop(r.data, Tail(keys), name, found)
         ELSE IF found # "ignore" THEN Raise(data, "GldException")
         ELSE delete_module_loop(data, Tail(keys), name, found)

\* mutant: found='delete' leaves the classes in place, as found='ignore' does
delete_module_no_cascade(data, name, found) ==
    delete_module_loop(data, [i \in DOMAIN data.classes |-> data.classes[i][1]], name,
                       IF found = "delete" THEN "ignore" ELSE found)

\* mutant: found='fail' does not raise
delete_module_fail_ignored(data, name, found) ==
    delete_module_loop(data, [i \in DOMAIN data.classes |-> data.classes[i][1]], name,
                       IF found = "fail" THEN "ignore" ELSE found)

GldModel_delete_module(data, name, found) ==
    delete_module_loop(data, [i \in DOMAIN data.classes |-> data.classes[i][1]], name, found)

\* oclass.get_property: GldClass has no such attribute
check_object(data, name, objdata) ==
    IF "class" \notin DOMAIN objdata THEN "GldException"
    ELSE IF ~Has(data.classes, objdata.class) THEN "GldException"
    ELSE "AttributeError"

GldModel_add_object(data, name, objdata, no_check) ==
    IF Has(data.objects, name) THEN Raise(data, "GldException")
    ELSE IF ~no_check THEN Raise(data, check_object(data, name, objdata))
    ELSE Ok([data EXCEPT !.objects = Put(@, name, objdata)])

RECURSIVE check_class_items(_, _)
check_class_items(classdata, keys) ==
    IF keys = <<>> THEN "ok"
    ELSE LET value == classdata[Head(keys)] IN
         IF Head(keys) \in {"module", "parent"} THEN "AttributeError"
         ELSE IF "type" \notin DOMAIN value THEN "GldException"
         ELSE IF value.type \notin Types THEN "GldException"
         ELSE IF ~(DOMAIN value \subseteq {"type", "access", "keywords", "flags", "description"})
              THEN "GldException"
         ELSE check_class_items(classdata, Tail(keys))

check_class(data, name, classdata) ==
    IF "module" \in DOMAIN classdata /\ ~Has(data.modules, classdata.module)
    THEN "GldException"
    ELSE check_class_items(classdata, KeySeq(classdata, ClassKeyOrder))

GldModel_add_class(data, name, classdata) ==
    LET checked == check_class(data, name, classdata) IN
    IF checked # "ok" THEN Raise(data, checked)
    ELSE IF Has(data.classes, name) THEN Raise(data, "GldException")
    ELSE Ok([data EXCEPT !.classes = Put(@, name, classdata)])

check_global(data, name, payload) ==
    IF ~(DOMAIN payload \subseteq {"type", "keywords", "access", "value"}) THEN "GldException"
    ELSE IF "type" \notin DOMAIN payload THEN "KeyError"
    ELSE IF payload.type \notin Types THEN "GldException"
    ELSE "ok"

GldModel_add_global(data, name, payload) ==
    IF "globals" \notin DOMAIN data THEN Raise(data, "KeyError")
    ELSE IF Has(data.globals, name) THEN Raise(data, "GldException")
    ELSE IF check_global(data, name, payload) # "ok"
         THEN Raise(data, check_global(data, name, payload))
    ELSE Ok([data EXCEPT !.globals = Put(@, name, payload)])

\* del self.data["globals"]: the name is not used
GldModel_delete_global(data, name) ==
    IF "globals" \notin DOMAIN data THEN Raise(data, "KeyError")
    ELSE Ok([k \in DOMAIN data \ {"globals"} |-> data[k]])

\* a payload is a Python value: a string or a dict
Str(text) == [type |-> "str", text |-> text]
Dict(items) == [type |-> "dict", items |-> items]

check_schedule(payload) == IF payload.type # "str" THEN "GldException" ELSE "ok"

\* no test of the name; the value returned is read from the key "schedule"
GldModel_add_schedule(data, name, payload) ==
    IF check_schedule(payload) # "ok" THEN Raise(data, "GldException")
    ELSE IF "schedules" \notin DOMAIN data THEN Raise(data, "KeyError")
    ELSE LET stored == [data EXCEPT !.schedules = Put(@, name, payload)] IN
         IF "schedule" \notin DOMAIN stored THEN Raise(stored, "KeyError") ELSE Ok(stored)

FilterRequired == {"domain", "timestep", "numerator", "denominator"}

FilterKeys == FilterRequired \cup {"timeskew", "resolution", "minimum", "maximum"}

check_filter(payload) ==
    IF ~(FilterRequired \subseteq DOMAIN payload.items) THEN "GldException"
    ELSE IF ~(DOMAIN payload.items \subseteq FilterKeys) THEN "GldException"
    ELSE "ok"

GldModel_add_filter(data, name, payload) ==
    IF "filters" \in DOMAIN data /\ Has(data.filters, name) THEN Raise(data, "GldException")
    ELSE IF check_filter(payload) # "ok" THEN Raise(data, "GldException")
    ELSE IF "filters" \notin DOMAIN data THEN Raise(data, "KeyError")
    ELSE Ok([data EXCEPT !.filters = Put(@, name, payload)])

(***************************************************************************)
(* The calls explored.                                                     *)
(***************************************************************************)
NoKw == <<>>

Policies == {"fail", "delete", "ignore", "bogus"}

ClassNames == {"node", "meter", "custom"}

ObjData ==
    {[class |-> "node"],
     [class |-> "node", phases |-> "ABC"],
     [class |-> "meter", parent |-> "n1"]}

ClassData ==
    {[rating |-> [type |-> "double"]],
     [rating |-> [type |-> "bogus"]],
     [parent |-> "node"]}

ObjectKwargs ==
    {[class |-> "node"],
     [class |-> "node", name |-> "n1"],
     [class |-> "node", phases |-> "ABC"],
     [class |-> "custom", phases |-> "ABC"],
     [name |-> "n1"]}

GlobalKwargs ==
    {("name" :> g) @@ k : g \in GlobalNames,
        k \in {NoKw,
               [type |-> "set"],
               [type |-> "set", keywords |-> << <<"A", "1">>, <<"B", "2">> >>],
               [type |-> "enumeration", keywords |-> << <<"A", "1">>, <<"B">> >>],
               [type |-> "bogus"],
               [access |-> "BAD"],
               [values |-> "1"],
               [type |-> "double", access |-> "PRIVATE", values |-> "1", value |-> "1"]}}
    \cup {[type |-> "set"]}

NameKwargs(names) == {("name" :> n) : n \in names} \cup {[found |-> "delete"]}

\* the commands on the classes, modules and objects of the model
GraphArgs ==
    {<<>>, <<"bogus">>, <<"delete">>, <<"create">>, <<"script">>,
     <<"search", "object">>, <<"update", "object">>, <<"delete", "module">>,
     <<"insert", "object">>, <<"insert", "module">>,
     <<"delete", "object">>, <<"delete", "class">>}

\* the commands on the globals of the model
GlobalArgs ==
    {<<"insert", "global">>, <<"update", "global">>, <<"delete", "global">>,
     <<"search", "global">>, <<"insert">>}

KwargsFor(args) ==
    CASE args = <<"insert", "object">> -> ObjectKwargs \cup {NoKw}
      [] args = <<"insert", "global">> -> GlobalKwargs \cup {NoKw}
      [] args = <<"insert", "module">> -> NameKwargs(ModNames)
      [] args = <<"delete", "object">> -> NameKwargs(ObjNames)
      [] args = <<"delete", "class">>  -> NameKwargs(ClassNames)
      [] args = <<"create">> -> {NoKw, [name |-> "x"], [name |-> NoneValue], [file |-> "x"]}
      [] OTHER -> {NoKw, [name |-> "x"]}

\* A call that raised and left the model as it was ends the run: the model is
\* the one the call before it left, and the calls that can follow it are
\* explored from there.
Ready == call.result = "ok" \/ DATA # before

CommandOn(arglists) ==
    \E args \in arglists : \E kwargs \in KwargsFor(args) :
        LET r == GridlabdModel_command(DATA, args, kwargs) IN
        /\ Ready
        /\ DATA' = r.data
        /\ before' = DATA
        /\ call' = [op |-> "command", args |-> args, kwargs |-> kwargs, result |-> r.result]
        /\ assigned' = assigned \o command_id(DATA, args, kwargs)

Command == CommandOn(GraphArgs)

GlobalCommand == CommandOn(GlobalArgs)

AddModule ==
    \E name \in ModNames :
        LET r == GldModel_add_module(DATA, name) IN
        /\ Ready
        /\ DATA' = r.data
        /\ before' = DATA
        /\ call' = [op |-> "add_module", name |-> name, result |-> r.result]
        /\ UNCHANGED assigned

DeleteModule ==
    \E name \in ModNames, found \in Policies :
        LET r == GldModel_delete_module(DATA, name, found) IN
        /\ Ready
        /\ DATA' = r.data
        /\ before' = DATA
        /\ call' = [op |-> "delete_module", name |-> name, found |-> found, result |-> r.result]
        /\ UNCHANGED assigned

AddClass ==
    \E name \in {"custom"}, classdata \in ClassData :
        LET r == GldModel_add_class(DATA, name, classdata) IN
        /\ Ready
        /\ DATA' = r.data
        /\ before' = DATA
        /\ call' = [op |-> "add_class", name |-> name, classdata |-> classdata,
                    result |-> r.result]
        /\ UNCHANGED assigned

DeleteClass ==
    \E name \in ClassNames, found \in Policies :
        LET r == GldModel_delete_class(DATA, name, found) IN
        /\ Ready
        /\ DATA' = r.data
        /\ before' = DATA
        /\ call' = [op |-> "delete_class", name |-> name, found |-> found, result |-> r.result]
        /\ UNCHANGED assigned

AddObject ==
    \E name \in ObjNames, objdata \in ObjData, no_check \in BOOLEAN :
        LET r == GldModel_add_object(DATA, name, objdata, no_check) IN
        /\ Ready
        /\ DATA' = r.data
        /\ before' = DATA
        /\ call' = [op |-> "add_object", name |-> name, objdata |-> objdata,
                    no_check |-> no_check, result |-> r.result]
        /\ UNCHANGED assigned

DeleteObject ==
    \E name \in ObjNames, found \in Policies :
        LET r == GldModel_delete_object(DATA, name, found) IN
        /\ Ready
        /\ DATA' = r.data
        /\ before' = DATA
        /\ call' = [op |-> "delete_object", name |-> name, found |-> found, result |-> r.result]
        /\ UNCHANGED assigned

Init ==
    /\ DATA = NewModel
    /\ before = NewModel
    /\ call = [op |-> "GldModel", result |-> "ok"]
    /\ assigned = <<>>

Next ==
    \/ Command
    \/ AddModule
    \/ DeleteModule
    \/ AddClass
    \/ DeleteClass
    \/ AddObject
    \/ DeleteObject

Spec == Init /\ [][Next]_vars

\* the globals are edited by commands that touch nothing else
NextGlobals == GlobalCommand

SpecGlobals == Init /\ [][NextGlobals]_vars

\* The schema of the model and the query of the required properties.
GetRequiredProperties ==
    \E oclass \in ClassNames :
        LET r == get_required_properties(DATA, oclass) IN
        /\ Ready
        /\ DATA' = DATA
        /\ before' = DATA
        /\ call' = [op |-> "get_required_properties", oclass |-> oclass,
                    result |-> IF r.exc = "none" THEN "ok" ELSE r.exc, value |-> r.val]
        /\ UNCHANGED assigned

NextSchema ==
    \/ AddModule
    \/ AddClass
    \/ DeleteClass
    \/ GetRequiredProperties

SpecSchema == Init /\ [][NextSchema]_vars

\* The queries of the schema, on models read from a file or handed to
\* GldModel(data): any parent may be named, also one that closes a cycle.
NoParent == "none"

ClassProperties(name, variant) ==
    CASE name = "node"  -> [phases |-> [type |-> "set", flags |-> <<"REQUIRED">>]]
      [] name = "meter" -> [rating |-> [type |-> "double"]]
      [] variant = "phases" -> [phases |-> [type |-> "double"]]
      [] variant = "id"     -> [id |-> [type |-> "double"]]
      [] OTHER -> <<>>

ClassEntry(name, parent, variant) ==
    <<name, (IF parent = NoParent THEN <<>> ELSE ("parent" :> parent))
               @@ ClassProperties(name, variant)>>

SchemaModels ==
    {[NewModel EXCEPT !.classes = <<ClassEntry("node", parentOf["node"], variant),
                                    ClassEntry("meter", parentOf["meter"], variant),
                                    ClassEntry("custom", parentOf["custom"], variant)>>] :
        parentOf \in [ClassNames -> ClassNames \cup {NoParent}],
        variant \in {"plain", "phases", "id"}}

PropNames == {"phases", "rating", "id", "name", "parent", "bogus"}

\* a query: the model is left as it is, the call records what was returned
Returned(op, args, r) ==
    /\ Ready
    /\ DATA' = DATA
    /\ before' = DATA
    /\ call' = [op |-> op, args |-> args,
                result |-> IF r.exc = "none" THEN "ok" ELSE r.exc, value |-> r.val]
    /\ UNCHANGED assigned

GetPropertyType ==
    \E classname \in ClassNames \cup {"bogus"}, propname \in PropNames :
        Returned("get_property_type", <<classname, propname>>,
                 get_property_type(DATA, classname, propname))

IsaClass ==
    \E name \in ClassNames \cup {"bogus"}, kindof \in ClassNames :
        Returned("isa_class", <<name, kindof>>, GldModel_isa_class(DATA, name, kindof))

RequiredProperties ==
    \E oclass \in ClassNames :
        Returned("get_required_properties", <<oclass>>, get_required_properties(DATA, oclass))

InitQuery ==
    /\ DATA \in SchemaModels
    /\ before = DATA
    /\ call = [op |-> "GldModel", result |-> "ok"]
    /\ assigned = <<>>

NextQuery ==
    \/ GetPropertyType
    \/ IsaClass
    \/ RequiredProperties

SpecQuery == InitQuery /\ [][NextQuery]_vars

\* The reference counts, on models that hold objects.  Class custom declares
\* phases as a reference; an object may name a class the model does not define.
MaxLimit == 3

Limits == 0..MaxLimit

RefClasses(customParent) ==
    <<ClassEntry("node", NoParent, "plain"),
      ClassEntry("meter", "node", "plain"),
      <<"custom", (IF customParent = NoParent THEN <<>> ELSE ("parent" :> customParent))
                    @@ [phases |-> [type |-> "object"]]>> >>

RefObject(class, id, parent, phases) ==
    [class |-> class, id |-> id]
      @@ (IF parent = NoParent THEN <<>> ELSE ("parent" :> parent))
      @@ (IF phases = NoParent THEN <<>> ELSE ("phases" :> phases))

RefObjects(name, id) ==
    {<<>>} \cup
    {<< <<name, RefObject(class, id, parent, phases)>> >> :
        class \in {"node", "custom", "bogus"},
        parent \in ObjNames \cup {NoParent},
        phases \in {"n1", "ABC", NoParent}}

RefModels ==
    {[NewModel EXCEPT !.classes = RefClasses(customParent), !.objects = first \o second] :
        customParent \in {NoParent, "node"},
        first \in RefObjects("n1", 0),
        second \in RefObjects("n2", 1)}

GetObjectReferenceCount ==
    \E name \in ObjNames, limit \in Limits :
        Returned("get_object_reference_count", <<name, limit>>,
                 get_object_reference_count(DATA, name, limit))

GetClassReferenceCount ==
    \E name \in ClassNames, limit \in Limits :
        Returned("get_class_reference_count", <<name, limit>>,
                 Val(get_class_reference_count(DATA, name, limit)))

InitRefs ==
    /\ DATA \in RefModels
    /\ before = DATA
    /\ call = [op |-> "GldModel", result |-> "ok"]
    /\ assigned = <<>>

NextRefs ==
    \/ GetObjectReferenceCount
    \/ GetClassReferenceCount

SpecRefs == InitRefs /\ [][NextRefs]_vars

\* The globals, schedules and filters.  A model file may leave out the
\* schedules and the filters.
CollectionModels ==
    {NewModel @@ optional :
        optional \in {<<>>, [schedules |-> <<>>], [filters |-> <<>>],
                      [schedules |-> <<>>, filters |-> <<>>]}}

SchedulePayloads == {Str("weekday"), Str("weekend"), Dict(<<>>)}

FilterPayloads ==
    {Dict(items) : items \in
        {[domain |-> "z", timestep |-> "1", numerator |-> "1", denominator |-> "1"],
         [domain |-> "z", timestep |-> "1", numerator |-> "1", denominator |-> "1",
          timeskew |-> "2"],
         [domain |-> "z", timestep |-> "1", numerator |-> "1"],
         [domain |-> "z", timestep |-> "1", numerator |-> "1", denominator |-> "1",
          bogus |-> "1"]}}

\* a call that may change the model
Applied(op, name, payload, r) ==
    /\ Ready
    /\ DATA' = r.data
    /\ before' = DATA
    /\ call' = [op |-> op, name |-> name, payload |-> payload, result |-> r.result]
    /\ UNCHANGED assigned

InsertGlobal ==
    \E kwargs \in {k \in GlobalKwargs : "name" \in DOMAIN k /\ k.name = "g"} :
        Applied("insert_global", kwargs.name, kwargs, GridlabdModel_insert_global(DATA, kwargs))

AddSchedule ==
    \E payload \in SchedulePayloads :
        Applied("add_schedule", "s", payload, GldModel_add_schedule(DATA, "s", payload))

AddFilter ==
    \E payload \in FilterPayloads :
        Applied("add_filter", "f", payload, GldModel_add_filter(DATA, "f", payload))

InitCollections ==
    /\ DATA \in CollectionModels
    /\ before = DATA
    /\ call = [op |-> "GldModel", result |-> "ok"]
    /\ assigned = <<>>

NextCollections ==
    \/ InsertGlobal
    \/ AddSchedule
    \/ AddFilter

SpecCollections == InitCollections /\ [][NextCollections]_vars

\* The import of modules, next to classes added by hand.
ImportNames == ModNames \cup EngineHollow

ImportModule ==
    \E name \in ImportNames :
        Applied("add_module", name, <<>>, GldModel_add_module(DATA, name))

InsertModule ==
    \E name \in ImportNames :
        Applied("insert_module", name, <<>>,
                GridlabdModel_insert_module(DATA, [name |-> name]))

AddClassByHand ==
    \E name \in {"node", "custom"}, classdata \in ClassData :
        Applied("add_class", name, classdata, GldModel_add_class(DATA, name, classdata))

NextImport ==
    \/ ImportModule
    \/ InsertModule
    \/ AddClassByHand
    \/ DeleteClass

SpecImport == Init /\ [][NextImport]_vars

\* The definition of classes by hand, before and after a module is imported.
ClassDefs ==
    {<<>>,
     [rating |-> [type |-> "double"]],
     [rating |-> [type |-> "double", access |-> "PUBLIC", description |-> "x"]],
     [rating |-> [type |-> "bogus"]],
     [rating |-> [access |-> "PUBLIC"]],
     [rating |-> [type |-> "double", unit |-> "kW"]],
     [module |-> "powerflow", rating |-> [type |-> "double"]],
     [module |-> "non_existent", rating |-> [type |-> "double"]],
     [parent |-> "node", rating |-> [type |-> "double"]]}

AddClassDef ==
    \E name \in {"node", "custom"}, classdata \in ClassDefs :
        Applied("add_class", name, classdata, GldModel_add_class(DATA, name, classdata))

NextClasses ==
    \/ ImportModule
    \/ AddClassDef
    \/ DeleteClass

SpecClasses == Init /\ [][NextClasses]_vars

\* The reading of a model file.  DATA is assigned before the model is checked;
\* the raise statement of check_model names the flag `exception` as its cause.
RequiredSections ==
    {"application", "version", "classes", "header", "types", "modules", "globals", "objects"}

OptionalSections == {"filters", "schedules"}

FullFile ==
    [application |-> "gridlabd", version |-> "4.3", classes |-> <<>>, header |-> Header,
     types |-> Types, modules |-> <<>>, globals |-> NewModel.globals, objects |-> <<>>,
     filters |-> << <<"f", Dict([domain |-> "z"])>> >>,
     schedules |-> << <<"s", Str("weekday")>> >>]

\* a file with at most one required section left out
ModelFiles ==
    {[k \in (RequiredSections \ left) \cup optional |-> FullFile[k]] :
        left \in {{}} \cup {{k} : k \in RequiredSections},
        optional \in SUBSET OptionalSections}

check_model(data) ==
    IF \E required \in RequiredSections : required \notin DOMAIN data
    THEN "TypeError" ELSE "ok"

GridlabdModel_read(file) ==
    IF check_model(file) # "ok" THEN Raise(file, check_model(file)) ELSE Ok(file)

get_filters(data) ==
    IF data = None THEN Exc("AttributeError")
    ELSE IF "filters" \notin DOMAIN data THEN Val(<<>>) ELSE Val(data.filters)

get_schedules(data) ==
    IF data = None THEN Exc("AttributeError")
    ELSE IF "schedules" \notin DOMAIN data THEN Val(<<>>) ELSE Val(data.schedules)

Read ==
    \E file \in ModelFiles :
        Applied("read", "file", file, GridlabdModel_read(file))

GetFilters == Returned("get_filters", <<>>, get_filters(DATA))

GetSchedules == Returned("get_schedules", <<>>, get_schedules(DATA))

NextLoad ==
    \/ Read
    \/ GetFilters
    \/ GetSchedules

InitLoad ==
    /\ DATA = None
    /\ before = None
    /\ call = [op |-> "GridlabdModel", result |-> "ok"]
    /\ assigned = <<>>

SpecLoad == InitLoad /\ [][NextLoad]_vars

\* The runs of the engine in one session.  DATA holds the module's global
\* VERSION and the model of the last runner; assigned lists the payloads of
\* the runs that produced a model.
APPLICATION == "gridlabd"

EngineVersions == {"4.2", "4.3", "4.4"}

EngineApplications == {APPLICATION, "other"}

ExitCodes == {0, 1, 2}

\* `if VERSION:` is the truth value of VERSION
Truthy(v) == v \notin {NoneValue, ""}

\* a runner that accepts every version
runner_no_version_check(session, exit, payload) ==
    IF exit # 0 THEN Raise(session, "GldException")
    ELSE IF payload.application # APPLICATION THEN Raise(session, "AssertionError")
    ELSE Ok([VERSION |-> IF Truthy(session.VERSION) THEN session.VERSION ELSE payload.version,
             model |-> payload])

GldRunner(session, exit, payload) ==
    IF exit # 0 THEN Raise(session, "GldException")
    ELSE IF payload.application # APPLICATION THEN Raise(session, "AssertionError")
    ELSE IF Truthy(session.VERSION) /\ payload.version # session.VERSION
         THEN Raise(session, "AssertionError")
    ELSE Ok([VERSION |-> IF Truthy(session.VERSION) THEN session.VERSION ELSE payload.version,
             model |-> payload])

Run ==
    \E exit \in ExitCodes, application \in EngineApplications, version \in EngineVersions :
        LET payload == [application |-> application, version |-> version]
            r == GldRunner(DATA, exit, payload)
        IN /\ Len(assigned) < MaxAssigned
           /\ DATA' = r.data
           /\ before' = DATA
           /\ call' = [op |-> "GldRunner", exit |-> exit, payload |-> payload,
                       result |-> r.result]
           /\ assigned' = IF r.result = "ok" THEN Append(assigned, payload) ELSE assigned

InitSession ==
    /\ DATA = [VERSION |-> NoneValue, model |-> None]
    /\ before = DATA
    /\ call = [op |-> "import", result |-> "ok"]
    /\ assigned = <<>>

NextRunner == Run

SpecRunner == InitSession /\ [][NextRunner]_vars

\* The editor's insert and delete of objects, from models without objects.
ObjectArgs == {<<"insert", "object">>, <<"delete", "object">>}

ObjectCommand == CommandOn(ObjectArgs)

NextObjects == ObjectCommand

SpecObjects == InitQuery /\ [][NextObjects]_vars

\* The editor's commands on models that hold objects of defined classes.
ClassedModels ==
    {m \in RefModels :
        /\ "parent" \notin DOMAIN Get(m.classes, "custom")
        /\ \A i \in DOMAIN m.objects :
              /\ Has(m.classes, m.objects[i][2].class)
              /\ "phases" \notin DOMAIN m.objects[i][2]}

EditorArgs ==
    {<<"insert", "object">>, <<"delete", "object">>, <<"delete", "class">>,
     <<"insert", "module">>}

EditorCommand == CommandOn(EditorArgs)

InitEditor ==
    /\ DATA \in ClassedModels
    /\ before = DATA
    /\ call = [op |-> "GridlabdModel", result |-> "ok"]
    /\ assigned = <<>>

NextEditor == EditorCommand

SpecEditor == InitEditor /\ [][NextEditor]_vars

\* The globals of the JSON model API.
GlobalPayloads ==
    {[type |-> "double", access |-> "PUBLIC", value |-> "1"],
     [type |-> "char1024", value |-> "x"],
     [type |-> "bogus", value |-> "1"],
     [value |-> "1"],
     [type |-> "double", unit |-> "kW"]}

AddGlobal ==
    \E name \in GlobalNames, payload \in GlobalPayloads :
        Applied("add_global", name, payload, GldModel_add_global(DATA, name, payload))

DeleteGlobal ==
    \E name \in GlobalNames \cup {"version"} :
        Applied("delete_global", name, <<>>, GldModel_delete_global(DATA, name))

NextJsonGlobals ==
    \/ AddGlobal
    \/ DeleteGlobal

SpecJsonGlobals == Init /\ [][NextJsonGlobals]_vars

\* insert_global called with the keywords type, access, value and values.
ValuedKwargs ==
    {("name" :> g) @@ k : g \in GlobalNames \cup {"version"},
        k \in {NoKw,
               [value |-> "1"],
               [type |-> "double", value |-> "1"],
               [access |-> "HIDDEN", value |-> "2"],
               [type |-> "double", access |-> "PRIVATE", value |-> "1"],
               [type |-> "int32", access |-> "PROTECTED", values |-> "3", value |-> "2"],
               [type |-> "double", access |-> "PRIVATE"],
               [type |-> "double", access |-> "PRIVATE", values |-> "1"],
               [type |-> "bogus", value |-> "1"],
               [access |-> "BAD", value |-> "1"]}}

InsertValuedGlobal ==
    \E kwargs \in ValuedKwargs :
        Applied("insert_global", kwargs.name, kwargs, GridlabdModel_insert_global(DATA, kwargs))

NextValues == InsertValuedGlobal

SpecValues == Init /\ [][NextValues]_vars

\* The editor before a model is loaded: create loads it.
InitUnloaded ==
    /\ DATA = None
    /\ before = None
    /\ call = [op |-> "GridlabdModel", result |-> "ok"]
    /\ assigned = <<>>

NextUnloaded == CommandOn(GraphArgs \cup GlobalArgs)

SpecUnloaded == InitUnloaded /\ [][NextUnloaded]_vars

\* A session of the editor on the objects of the model: every call is
\* followed by the next one, whether it raised or not.
SessionArgs == {<<"insert", "module">>, <<"insert", "object">>, <<"delete", "object">>}

SessionCommand ==
    \E args \in SessionArgs : \E kwargs \in KwargsFor(args) :
        LET r == GridlabdModel_command(DATA, args, kwargs) IN
        /\ Len(assigned) < MaxAssigned
        /\ DATA' = r.data
        /\ before' = DATA
        /\ call' = [op |-> "command", args |-> args, kwargs |-> kwargs, result |-> r.result]
        /\ assigned' = assigned \o command_id(DATA, args, kwargs)

\* the names add_object stores under: a synthesized name can be taken
SessionNames == ObjNames \cup {"node:1"}

SessionAddObject ==
    \E name \in SessionNames, objdata \in ObjData :
        LET r == GldModel_add_object(DATA, name, objdata, TRUE) IN
        /\ Len(assigned) < MaxAssigned
        /\ DATA' = r.data
        /\ before' = DATA
        /\ call' = [op |-> "add_object", name |-> name, objdata |-> objdata,
                    no_check |-> TRUE, result |-> r.result]
        /\ UNCHANGED assigned

NextSession ==
    \/ SessionCommand
    \/ SessionAddObject

SpecSession == Init /\ [][NextSession]_vars

(***************************************************************************)
(* Vocabulary of the properties.                                           *)
(***************************************************************************)
IsCommand(args) == call.op = "command" /\ call.args = args

\* the command reached its handler with the keyword name
Named(args) == IsCommand(args) /\ "name" \in DOMAIN call.kwargs

Failed == call.result # "ok"

\* property key of object values is a reference to the object target
IsReference(data, values, key, target) ==
    /\ get_property_type(data, values.class, key) = Val("object")
    /\ values[key] = target

Holders(data, target) ==
    {i \in DOMAIN data.objects :
        \E key \in DOMAIN data.objects[i][2] :
            IsReference(data, data.objects[i][2], key, target)}

HasInbound(data, target) == Holders(data, target) # {}

SoleHolder(data, holder, target) ==
    /\ Holders(data, target) # {}
    /\ \A i \in Holders(data, target) : data.objects[i][1] = holder

\* the type of every property of every object resolves
WellTyped(data) ==
    \A i \in DOMAIN data.objects : \A key \in DOMAIN data.objects[i][2] :
        get_property_type(data, data.objects[i][2].class, key).exc = "none"

\* the properties flagged REQUIRED in a class or in an ancestor of it
RECURSIVE RequiredInChain(_, _, _)
RequiredInChain(data, class, depth) ==
    IF depth > MaxChain \/ ~Has(data.classes, class) THEN {}
    ELSE LET classdata == Get(data.classes, class) IN
         {key \in DOMAIN classdata \ {"module", "parent"} :
             /\ "flags" \in DOMAIN classdata[key]
             /\ \E i \in DOMAIN classdata[key].flags : classdata[key].flags[i] = "REQUIRED"}
         \cup (IF "parent" \in DOMAIN classdata
               THEN RequiredInChain(data, classdata.parent, depth + 1) ELSE {})

Declares(data, module) ==
    {i \in DOMAIN data.classes :
        "module" \in DOMAIN data.classes[i][2] /\ data.classes[i][2].module = module}

(***************************************************************************)
(* C1: a failing insert_object or add_object leaves the objects collection *)
(* as it was, in cardinality and in content.                               *)
(***************************************************************************)
C1_AddObjectAtomic ==
    (IsCommand(<<"insert", "object">>) \/ call.op = "add_object") /\ Failed
        => DATA.objects = before.objects

C1_Witness ==
    /\ IsCommand(<<"insert", "object">>)
    /\ call.result = "GridlabdEntityExists"
    /\ Len(DATA.objects) = 2

(***************************************************************************)
(* C2: whenever some object-typed property names the target, delete_object *)
(* fails with EntityInUse and the model is unchanged, whatever the policy. *)
(***************************************************************************)
C2_ReferencedNeverDeleted ==
    /\ Named(<<"delete", "object">>) /\ HasInbound(before, call.kwargs.name)
          => call.result = "GridlabdEntityInUse" /\ DATA = before
    /\ call.op = "delete_object" /\ HasInbound(before, call.name)
          => call.result = "GldException" /\ DATA = before

(***************************************************************************)
(* C3: delete_object(name) fails with EntityInUse if and only if           *)
(* count_object_references(name, limit=1) > 0 just before the call.        *)
(***************************************************************************)
C3_InUseIffReferenced ==
    Named(<<"delete", "object">>) =>
        (call.result = "GridlabdEntityInUse"
            <=> LET refcount == get_object_reference_count(before, call.kwargs.name, 1)
                IN refcount.exc = "none" /\ refcount.val > 0)

C3_Witness ==
    /\ Named(<<"delete", "object">>)
    /\ call.result = "GridlabdEntityInUse"
    /\ Has(before.objects, call.kwargs.name)

(***************************************************************************)
(* C4: when n2 is the only holder of a reference to n1, delete_object(n1)  *)
(* fails with EntityInUse and leaves both objects; once delete_object(n2)  *)
(* has succeeded, delete_object(n1) succeeds and removes n1.               *)
(***************************************************************************)
DeleteNow(data, name) == GridlabdModel_delete_object(data, [name |-> name])

C4_After(n1, n2) ==
    /\ Named(<<"delete", "object">>) /\ call.kwargs.name = n2 /\ call.result = "ok"
    /\ Has(before.objects, n1) /\ SoleHolder(before, n2, n1)

C4_Original ==
    \A n1 \in ObjNames : \A n2 \in ObjNames \ {n1} :
        /\ Named(<<"delete", "object">>) /\ call.kwargs.name = n1
           /\ Has(before.objects, n1) /\ Has(before.objects, n2)
           /\ SoleHolder(before, n2, n1)
              => call.result = "GridlabdEntityInUse" /\ DATA = before
        /\ C4_After(n1, n2)
              => /\ DeleteNow(DATA, n1).result = "ok"
                 /\ ~Has(DeleteNow(DATA, n1).data.objects, n1)

\* the scenario where the reference scan completes: the first delete fails and
\* leaves both objects, with EntityInUse when the type of every property of
\* every object resolves
C4_WellTypedScenario ==
    \A n1 \in ObjNames : \A n2 \in ObjNames \ {n1} :
        /\ Named(<<"delete", "object">>) /\ call.kwargs.name = n1
           /\ Has(before.objects, n1) /\ Has(before.objects, n2)
           /\ SoleHolder(before, n2, n1)
              => /\ Failed /\ DATA = before
                 /\ WellTyped(before) => call.result = "GridlabdEntityInUse"
        /\ C4_After(n1, n2)
              => /\ DeleteNow(before, n1) = Raise(before, "GridlabdEntityInUse")
                 /\ DeleteNow(DATA, n1).result = "ok"
                 /\ ~Has(DeleteNow(DATA, n1).data.objects, n1)

C4_Witness == C4_After("n1", "n2") /\ Has(DATA.objects, "n1")

(***************************************************************************)
(* C5: after a successful add of an object, every property flagged         *)
(* REQUIRED in its class or in an ancestor is a key of the stored object.  *)
(***************************************************************************)
C5_RequiredPresent ==
    /\ call.op = "add_object" /\ call.result = "ok" /\ ~Has(before.objects, call.name)
          => RequiredInChain(DATA, Get(DATA.objects, call.name).class, 0)
                \subseteq DOMAIN Get(DATA.objects, call.name)
    /\ IsCommand(<<"insert", "object">>) /\ call.result = "ok"
          => \A i \in DOMAIN DATA.objects :
                RequiredInChain(DATA, DATA.objects[i][2].class, 0)
                    \subseteq DOMAIN DATA.objects[i][2]
                \/ \E j \in DOMAIN before.objects : before.objects[j] = DATA.objects[i]

(***************************************************************************)
(* C6: a command whose operation fails leaves every collection of the      *)
(* model exactly as it was before the command.                             *)
(***************************************************************************)
C6_CommandAtomic == call.op = "command" /\ Failed => DATA = before

(***************************************************************************)
(* C7: a failing insert_global leaves globals unchanged; with type set or  *)
(* enumeration and no keywords it fails with MissingValue and the name is  *)
(* not a key of globals afterwards.                                        *)
(***************************************************************************)
C7_InsertGlobalAtomic ==
    /\ IsCommand(<<"insert", "global">>) /\ Failed => DATA.globals = before.globals
    /\ (/\ Named(<<"insert", "global">>)
        /\ "type" \in DOMAIN call.kwargs
        /\ call.kwargs.type \in {"set", "enumeration"}
        /\ "keywords" \notin DOMAIN call.kwargs
        /\ ~Has(before.globals, call.kwargs.name))
          => call.result = "GridlabdMissingValue" /\ ~Has(DATA.globals, call.kwargs.name)

(***************************************************************************)
(* C8: delete_module(name, delete) either removes the module and every     *)
(* class declaring it, or fails leaving modules, classes and objects as    *)
(* they were.                                                              *)
(***************************************************************************)
C8_DeleteModuleAllOrNothing ==
    call.op = "delete_module" /\ call.found = "delete" /\ Has(before.modules, call.name) =>
        \/ /\ call.result = "ok"
           /\ ~Has(DATA.modules, call.name)
           /\ Declares(DATA, call.name) = {}
        \/ Failed /\ DATA = before

(***************************************************************************)
(* C9: after a successful delete_module(name, delete) the module is absent *)
(* from modules and no class whose module is name remains in classes.      *)
(***************************************************************************)
C9_DeleteModuleCascades ==
    call.op = "delete_module" /\ call.found = "delete" /\ call.result = "ok" =>
        ~Has(DATA.modules, call.name) /\ Declares(DATA, call.name) = {}

C9_Witness ==
    /\ call.op = "delete_module" /\ call.found = "delete" /\ call.result = "ok"
    /\ Cardinality(Declares(before, call.name)) = 2
    /\ DATA.classes = <<>>

(***************************************************************************)
(* C10: delete_module(name, fail) fails whenever a class declares the      *)
(* module, and leaves modules and classes unchanged.                       *)
(***************************************************************************)
C10_DeleteModuleFail ==
    call.op = "delete_module" /\ call.found = "fail" /\ Declares(before, call.name) # {} =>
        /\ Failed
        /\ DATA.modules = before.modules
        /\ DATA.classes = before.classes

C10_Witness ==
    /\ call.op = "delete_module" /\ call.found = "fail"
    /\ Cardinality(Declares(before, call.name)) = 2
    /\ Has(DATA.modules, call.name)
    /\ call.result = "GldException"
(***************************************************************************)
(* C11: delete_module(name, ignore) removes exactly the entry name from    *)
(* modules and leaves every class and every object unchanged.              *)
(***************************************************************************)
C11_DeleteModuleIgnore ==
    call.op = "delete_module" /\ call.found = "ignore" /\ Has(before.modules, call.name) =>
        /\ call.result = "ok"
        /\ DATA.modules = Del(before.modules, call.name)
        /\ DATA.classes = before.classes
        /\ DATA.objects = before.objects

\* the same when every class of the model carries a module key
C11_IgnoreWithModuleKeys ==
    /\ call.op = "delete_module" /\ call.found = "ignore" /\ Has(before.modules, call.name)
    /\ \A i \in DOMAIN before.classes : "module" \in DOMAIN before.classes[i][2]
    => /\ call.result = "ok"
       /\ DATA.modules = Del(before.modules, call.name)
       /\ DATA.classes = before.classes
       /\ DATA.objects = before.objects

(***************************************************************************)
(* C12: under the fail policy delete_class(name) refuses, with the in-use  *)
(* error and no change, a class named by the class of an object or by the  *)
(* parent of a class; an existing class nothing names is removed, and only *)
(* that class.                                                             *)
(***************************************************************************)
ClassReferenced(data, name) ==
    \/ \E i \in DOMAIN data.objects :
          "class" \in DOMAIN data.objects[i][2] /\ data.objects[i][2].class = name
    \/ \E i \in DOMAIN data.classes :
          "parent" \in DOMAIN data.classes[i][2] /\ data.classes[i][2].parent = name

ClassRemoved(name) ==
    /\ call.result = "ok"
    /\ DATA = [before EXCEPT !.classes = Del(@, name)]

\* the editor's delete class
C12_EditorDeleteClass ==
    Named(<<"delete", "class">>) /\ Has(before.classes, call.kwargs.name) =>
        IF ClassReferenced(before, call.kwargs.name)
        THEN call.result = "GridlabdEntityInUse" /\ DATA = before
        ELSE ClassRemoved(call.kwargs.name)

C12_DeleteClassFail ==
    /\ C12_EditorDeleteClass
    /\ call.op = "delete_class" /\ call.found = "fail" /\ Has(before.classes, call.name) =>
          IF ClassReferenced(before, call.name)
          THEN call.result = "GldException" /\ DATA = before
          ELSE ClassRemoved(call.name)

Insertable(kwargs) ==
    /\ "class" \in DOMAIN kwargs
    /\ Has(before.classes, kwargs.class)
    /\ RequiredInChain(before, kwargs.class, 0) \subseteq DOMAIN kwargs

C14_SynthesizedName ==
    /\ IsCommand(<<"insert", "object">>)
    /\ Insertable(call.kwargs)
    /\ "name" \notin DOMAIN call.kwargs
    /\ ~Has(before.objects, SynthName(call.kwargs.class, Len(before.objects)))
    => /\ call.result = "ok"
       /\ Has(DATA.objects, SynthName(call.kwargs.class, Len(before.objects)))
       /\ Len(DATA.objects) = Len(before.objects) + 1

(***************************************************************************)
(* C15: insert_object fails with EntityExists whenever the resulting name, *)
(* supplied or synthesized, is already a key of objects, and the object of *)
(* that name is left unchanged.                                            *)
(***************************************************************************)
\* the name an insert with these keywords resolves to, none without a class
ResultingName(kwargs) ==
    IF "name" \in DOMAIN kwargs THEN {kwargs.name}
    ELSE IF "class" \in DOMAIN kwargs
         THEN {SynthName(kwargs.class, Len(before.objects))}
         ELSE {}

NameTaken(kwargs) == \E oname \in ResultingName(kwargs) : Has(before.objects, oname)

C15_Original ==
    /\ IsCommand(<<"insert", "object">>) /\ NameTaken(call.kwargs)
          => call.result = "GridlabdEntityExists" /\ DATA.objects = before.objects
    /\ call.op = "add_object" /\ Has(before.objects, call.name)
          => call.result = "GldException" /\ DATA.objects = before.objects

\* amended: when the class is given and is defined in the model
C15_EntityExists ==
    /\ (/\ IsCommand(<<"insert", "object">>) /\ NameTaken(call.kwargs)
        /\ "class" \in DOMAIN call.kwargs
        /\ Has(before.classes, call.kwargs.class))
          => call.result = "GridlabdEntityExists" /\ DATA.objects = before.objects
    /\ call.op = "add_object" /\ Has(before.objects, call.name)
          => call.result = "GldException" /\ DATA.objects = before.objects

\* the synthesized name is taken
C15_Witness ==
    /\ IsCommand(<<"insert", "object">>)
    /\ "name" \notin DOMAIN call.kwargs
    /\ NameTaken(call.kwargs)
    /\ call.result = "GridlabdEntityExists"

(***************************************************************************)
(* C16: insert_object fails with the missing-value error, naming exactly   *)
(* the required properties not supplied, when a property REQUIRED by the   *)
(* class or by an ancestor is not among the keywords; it succeeds when all *)
(* are supplied.                                                           *)
(***************************************************************************)
\* the required properties an insert with these keywords does not supply
Missing(kwargs) == RequiredInChain(before, kwargs.class, 0) \ DOMAIN kwargs

C16_MissingRequired ==
    /\ IsCommand(<<"insert", "object">>)
    /\ "class" \in DOMAIN call.kwargs
    /\ Has(before.classes, call.kwargs.class)
    /\ ~NameTaken(call.kwargs)
    => IF Missing(call.kwargs) # {}
       THEN call.result = "GridlabdMissingValue" /\ DATA = before
       ELSE call.result = "ok"

(***************************************************************************)
(* C17: command() rejects with InvalidCommand, running no operation, a     *)
(* command whose verb is not in the routing table or that has fewer        *)
(* arguments or fewer keywords than the table's minimum for the verb; the  *)
(* error reports the minimum less the number supplied.                     *)
(***************************************************************************)
KnownVerb == Len(call.args) > 0 /\ call.args[1] \in DOMAIN VALID_COMMANDS

TooFewArgs == KnownVerb /\ Len(call.args) < VALID_COMMANDS[call.args[1]].args

TooFewKeywords ==
    KnownVerb /\ Cardinality(DOMAIN call.kwargs) < VALID_COMMANDS[call.args[1]].kwargs

C17_ShapeChecked ==
    call.op = "command" =>
        /\ ~KnownVerb \/ TooFewArgs \/ TooFewKeywords
              => call.result = "GridlabdInvalidCommand" /\ DATA = before
        /\ TooFewArgs
              => /\ command_deficit(call.args, call.kwargs)
                        = VALID_COMMANDS[call.args[1]].args - Len(call.args)
                 /\ command_deficit(call.args, call.kwargs) > 0
        /\ TooFewKeywords /\ ~TooFewArgs
              => /\ command_deficit(call.args, call.kwargs)
                        = VALID_COMMANDS[call.args[1]].kwargs - Cardinality(DOMAIN call.kwargs)
                 /\ command_deficit(call.args, call.kwargs) > 0

C17_Witness ==
    /\ IsCommand(<<"insert", "object">>)
    /\ call.kwargs = NoKw
    /\ call.result = "GridlabdInvalidCommand"
    /\ command_deficit(call.args, call.kwargs) = 1

(***************************************************************************)
(* C18: a command of valid shape whose verb and component name no handler  *)
(* (any search, update global) is rejected with InvalidCommand and leaves  *)
(* the model unchanged.                                                    *)
(***************************************************************************)
ShapeValid == KnownVerb /\ ~TooFewArgs /\ ~TooFewKeywords

\* "_".join(args[0:nargs]) of the command called
Routed == SubSeq(call.args, 1, VALID_COMMANDS[call.args[1]].args)

C18_NoHandlerRejected ==
    call.op = "command" /\ ShapeValid /\ Routed \notin Methods =>
        call.result = "GridlabdInvalidCommand" /\ DATA = before

(***************************************************************************)
(* C19: command() rejects with InvalidCommand a command whose verb takes   *)
(* no input (create) when a model is loaded, and one whose verb requires   *)
(* input (delete, insert, search, script, update) when none is loaded.     *)
(***************************************************************************)
InputMismatch ==
    \/ before # None /\ VALID_COMMANDS[call.args[1]].input = 0
    \/ before = None /\ VALID_COMMANDS[call.args[1]].input = 1

C19_InputPresence ==
    call.op = "command" /\ KnownVerb /\ InputMismatch =>
        call.result = "GridlabdInvalidCommand" /\ DATA = before

\* the same for the commands that have a handler
C19_HandledInputPresence ==
    call.op = "command" /\ ShapeValid /\ Routed \in Methods /\ InputMismatch =>
        call.result = "GridlabdInvalidCommand" /\ DATA = before

(***************************************************************************)
(* C20: the required properties of a class with a parent contain the       *)
(* required properties of the parent, and are empty when no property of    *)
(* the parent chain of the class is flagged REQUIRED.                      *)
(***************************************************************************)
Elements(seq) == {seq[i] : i \in DOMAIN seq}

C20_RequiredInherited ==
    call.op = "get_required_properties" /\ Has(DATA.classes, call.oclass) =>
        LET classdata == Get(DATA.classes, call.oclass) IN
        /\ "parent" \in DOMAIN classdata /\ Has(DATA.classes, classdata.parent)
              => /\ call.result = "ok"
                 /\ get_required_properties(DATA, classdata.parent).exc = "none"
                 /\ Elements(get_required_properties(DATA, classdata.parent).val)
                        \subseteq Elements(call.value)
        /\ RequiredInChain(DATA, call.oclass, 0) = {}
              => call.result = "ok" /\ call.value = <<>>

\* the same for the classes that have no parent
C20_RequiredOwn ==
    /\ call.op = "get_required_properties" /\ Has(DATA.classes, call.oclass)
    /\ "parent" \notin DOMAIN Get(DATA.classes, call.oclass)
    => /\ call.result = "ok"
       /\ Elements(call.value) = RequiredInChain(DATA, call.oclass, 0)

(***************************************************************************)
(* C21: every walk of a parent chain ends, also where a class is its own   *)
(* ancestor: on a cyclic chain the walk ends with the invalid-model error. *)
(***************************************************************************)
\* following the parents of a class for so many steps leaves the classes
RECURSIVE WalkEnds(_, _, _)
WalkEnds(data, name, steps) ==
    IF ~Has(data.classes, name) \/ "parent" \notin DOMAIN Get(data.classes, name) THEN TRUE
    ELSE IF steps = 0 THEN FALSE
    ELSE WalkEnds(data, Get(data.classes, name).parent, steps - 1)

Cyclic(data, name) == ~WalkEnds(data, name, Len(data.classes))

\* the classes of the chain of a class
RECURSIVE ChainOf(_, _, _)
ChainOf(data, name, steps) ==
    IF ~Has(data.classes, name) THEN {}
    ELSE IF steps = 0 \/ "parent" \notin DOMAIN Get(data.classes, name) THEN {name}
    ELSE {name} \cup ChainOf(data, Get(data.classes, name).parent, steps - 1)

DeclaredInChain(data, name, propname) ==
    \E c \in ChainOf(data, name, Len(data.classes)) : propname \in DOMAIN Get(data.classes, c)

InvalidModel == {"GridlabdModelError", "GldException"}

C21_CyclicChainRejected ==
    /\ call.op \in {"isa_class", "get_required_properties"} /\ Cyclic(DATA, call.args[1])
          => call.result \in InvalidModel
    /\ (/\ call.op = "get_property_type" /\ Cyclic(DATA, call.args[1])
        /\ call.args[2] \notin DOMAIN Header
        /\ ~DeclaredInChain(DATA, call.args[1], call.args[2]))
          => call.result \in InvalidModel

\* every walk ends: with a value or with an exception
C21_WalkEnds ==
    call.op \in {"isa_class", "get_required_properties", "get_property_type"}
        => call.result \in {"ok", "RecursionError", "NameError", "KeyError",
                            "GridlabdMissingValue", "GridlabdModelError"}

(***************************************************************************)
(* C22: get_property_type returns the header's type for a header field,    *)
(* also where the class declares the property itself; otherwise the type   *)
(* declared by the nearest class of the chain class, parent(class), ...    *)
(* that declares it; and it fails with the missing-property error where    *)
(* neither the header nor a class of the chain declares the property.      *)
(***************************************************************************)
Undeclared == "undeclared"

RECURSIVE NearestType(_, _, _, _)
NearestType(data, name, propname, steps) ==
    IF ~Has(data.classes, name) THEN Undeclared
    ELSE LET classdata == Get(data.classes, name) IN
         IF propname \in DOMAIN classdata THEN classdata[propname].type
         ELSE IF steps = 0 \/ "parent" \notin DOMAIN classdata THEN Undeclared
         ELSE NearestType(data, classdata.parent, propname, steps - 1)

ResolvedAsClaimed ==
    LET classname == call.args[1]
        propname  == call.args[2]
        nearest   == NearestType(DATA, classname, propname, Len(DATA.classes))
    IN  IF propname \in DOMAIN Header
        THEN call.result = "ok" /\ call.value = Header[propname]
        ELSE IF nearest # Undeclared
             THEN call.result = "ok" /\ call.value = nearest
             ELSE call.result = "GridlabdMissingValue"

C22_PropertyTypeResolution == call.op = "get_property_type" => ResolvedAsClaimed

\* the same on the chains that end
C22_AcyclicResolution ==
    call.op = "get_property_type" /\ ~Cyclic(DATA, call.args[1]) => ResolvedAsClaimed

\* a header field that the class declares, and a property found in an ancestor
C22_Witness ==
    /\ call.op = "get_property_type" /\ call.result = "ok"
    /\ \/ call.args = <<"custom", "id">> /\ "id" \in DOMAIN Get(DATA.classes, "custom")
       \/ /\ call.args = <<"custom", "rating">> /\ call.value = "double"
          /\ Get(DATA.classes, "custom").parent = "meter"

(***************************************************************************)
(* C23: get_object_reference_count(target) without a limit returns the     *)
(* exact number of (object, property) pairs whose property type is object  *)
(* and whose value is target; with a limit L >= 1 it returns the smaller   *)
(* of that number and L.                                                   *)
(***************************************************************************)
ReferencePairs(data, target) ==
    {<<i, key>> \in (DOMAIN data.objects) \X {"class", "id", "parent", "phases"} :
        /\ key \in DOMAIN data.objects[i][2]
        /\ IsReference(data, data.objects[i][2], key, target)}

Min(a, b) == IF a <= b THEN a ELSE b

Capped(exact, limit) == IF limit = 0 THEN exact ELSE Min(exact, limit)

C23_ObjectReferenceCount ==
    call.op = "get_object_reference_count" =>
        /\ call.result = "ok"
        /\ call.value = Capped(Cardinality(ReferencePairs(DATA, call.args[1])), call.args[2])

\* the same where the call returns, and it returns on every well-typed model
C23_CountWhenReturned ==
    call.op = "get_object_reference_count" =>
        /\ WellTyped(DATA) => call.result = "ok"
        /\ call.result = "ok" =>
              call.value = Capped(Cardinality(ReferencePairs(DATA, call.args[1])), call.args[2])

\* two objects, two references each, counted without a limit and with limit 3
C23_Witness ==
    /\ call.op = "get_object_reference_count" /\ call.result = "ok"
    /\ Cardinality(ReferencePairs(DATA, call.args[1])) = 4
    /\ call.args[2] = 3

(***************************************************************************)
(* C24: get_class_reference_count(target) returns the number of classes    *)
(* whose parent is target plus the number of objects whose class is        *)
(* target, capped at the limit when a limit L >= 1 is given, and it leaves *)
(* the model unchanged.                                                    *)
(***************************************************************************)
ChildClasses(data, target) ==
    {i \in DOMAIN data.classes :
        "parent" \in DOMAIN data.classes[i][2] /\ data.classes[i][2].parent = target}

Instances(data, target) ==
    {i \in DOMAIN data.objects : data.objects[i][2].class = target}

CollectionOf(op) ==
    CASE op = "insert_global" -> "globals"
      [] op = "add_schedule"  -> "schedules"
      [] op = "add_filter"    -> "filters"

Adding == call.op \in {"insert_global", "add_schedule", "add_filter"}

\* the entries of the collection the call is about; none where the key is absent
Entries(data) ==
    IF CollectionOf(call.op) \in DOMAIN data THEN data[CollectionOf(call.op)] ELSE <<>>

EntityExists == {"GridlabdEntityExists", "GldException"}

C25_ExistingNameKept ==
    Adding /\ Has(Entries(before), call.name) =>
        /\ call.result \in EntityExists
        /\ Entries(DATA) = Entries(before)

\* globals and filters alone: the entry is kept, whatever the error
C25_GlobalFilterKept ==
    call.op \in {"insert_global", "add_filter"} /\ Has(Entries(before), call.name) =>
        /\ call.result # "ok"
        /\ Entries(DATA) = Entries(before)

(***************************************************************************)
(* C26: the payload is validated before it is inserted.  A global whose    *)
(* type is not in the type catalog or whose access level is not one of the *)
(* five, a filter that lacks a required key or carries an unrecognised     *)
(* one, and a schedule whose payload is not a string are rejected with the *)
(* collection left as it was; a valid payload under a fresh name is in the *)
(* collection after the call returns.                                      *)
(***************************************************************************)
ValidPayload ==
    CASE call.op = "insert_global" ->
            /\ "type" \in DOMAIN call.payload => call.payload.type \in Types
            /\ "access" \in DOMAIN call.payload => call.payload.access \in AccessLevels
      [] call.op = "add_schedule" -> call.payload.type = "str"
      [] call.op = "add_filter" ->
            /\ FilterRequired \subseteq DOMAIN call.payload.items
            /\ DOMAIN call.payload.items \subseteq FilterKeys

C26_InvalidRejected ==
    Adding /\ ~ValidPayload => call.result # "ok" /\ DATA = before

C26_ValidInserted ==
    Adding /\ ValidPayload /\ ~Has(Entries(before), call.name) =>
        call.result = "ok" /\ Has(Entries(DATA), call.name)

C26_ValidatedInsertion == C26_InvalidRejected /\ C26_ValidInserted

(***************************************************************************)
(* C27: importing a module is idempotent: importing a module whose         *)
(* definition is already present and identical leaves the classes and the  *)
(* modules exactly as they were after the first import.                    *)
(***************************************************************************)
Importing == call.op \in {"add_module", "insert_module"}

PresentIdentical(data, name) ==
    LET payload == EnginePayload(name) IN
    /\ Has(payload.modules, name)
    /\ \A i \in DOMAIN payload.modules :
          /\ Has(data.modules, payload.modules[i][1])
          /\ Get(data.modules, payload.modules[i][1]) = payload.modules[i][2]
    /\ \A i \in DOMAIN payload.classes :
          /\ Has(data.classes, payload.classes[i][1])
          /\ Get(data.classes, payload.classes[i][1]) = payload.classes[i][2]

C27_ImportIdempotent ==
    Importing /\ PresentIdentical(before, call.name) =>
        /\ call.result = "ok"
        /\ DATA.classes = before.classes
        /\ DATA.modules = before.modules

\* a second import by the editor, with a class added by hand in between
C27_Witness ==
    /\ call.op = "insert_module" /\ PresentIdentical(before, call.name)
    /\ Has(before.classes, "custom")

(***************************************************************************)
(* C28: classes are define-once under module import: if an imported class  *)
(* name is already in classes with a different content, the import fails   *)
(* with the schema-conflict error and the existing class is left as it     *)
(* was; it is never silently overwritten.                                  *)
(***************************************************************************)
Divergent(data, name) ==
    LET payload == EnginePayload(name) IN
    {payload.classes[i][1] : i \in {j \in DOMAIN payload.classes :
        /\ Has(data.classes, payload.classes[j][1])
        /\ Get(data.classes, payload.classes[j][1]) # payload.classes[j][2]}}

C28_DefineOnce ==
    Importing /\ EngineExit(call.name) = 0 /\ Divergent(before, call.name) # {} =>
        /\ call.result # "ok"
        /\ \A c \in Divergent(before, call.name) :
              Has(DATA.classes, c) /\ Get(DATA.classes, c) = Get(before.classes, c)

\* the module itself being present, add_module leaves a divergent class alone
C28_PresentModuleUntouched ==
    call.op = "add_module" /\ Has(before.modules, call.name) => DATA = before

(***************************************************************************)
(* C29: importing a module that the engine cannot provide (the engine      *)
(* exits non-zero, or its payload does not contain the module) fails with  *)
(* the engine-failure error and leaves modules and classes unchanged.      *)
(***************************************************************************)
EngineFailure == {"GldException", "GridlabdRuntimeError"}

NotProvided(name) == EngineExit(name) # 0 \/ ~Has(EnginePayload(name).modules, name)

C29_EngineFailure ==
    Importing /\ NotProvided(call.name) =>
        /\ call.result \in EngineFailure
        /\ DATA.modules = before.modules
        /\ DATA.classes = before.classes

\* add_module on a non-zero exit, as its test expects
C29_AddModuleNonZeroExit ==
    call.op = "add_module" /\ EngineExit(call.name) # 0 =>
        call.result = "GldException" /\ DATA = before

\* whichever error, the model is as it was
C29_Unchanged ==
    Importing /\ NotProvided(call.name) => DATA = before

(***************************************************************************)
(* C30: add_class accepts a definition if and only if the name is not yet  *)
(* defined, a module it names is in modules, every property declares a     *)
(* type of the type catalog and every property's keys are among type,      *)
(* access, keywords, flags, description; a definition that carries a valid *)
(* module or parent entry next to valid properties is accepted; a rejected *)
(* definition leaves classes unchanged.                                    *)
(***************************************************************************)
PropertiesOf(classdata) == DOMAIN classdata \ {"module", "parent"}

Acceptable(data, name, classdata) ==
    /\ ~Has(data.classes, name)
    /\ "module" \in DOMAIN classdata => Has(data.modules, classdata.module)
    /\ \A p \in PropertiesOf(classdata) :
          /\ "type" \in DOMAIN classdata[p]
          /\ classdata[p].type \in Types
          /\ DOMAIN classdata[p] \subseteq {"type", "access", "keywords", "flags", "description"}

Accepted ==
    /\ call.result = "ok"
    /\ Has(DATA.classes, call.name)
    /\ Get(DATA.classes, call.name) = call.payload

C30_AddClassIff ==
    call.op = "add_class" =>
        /\ Accepted <=> Acceptable(before, call.name, call.payload)
        /\ ~Accepted => DATA.classes = before.classes

\* the same for the definitions that carry neither module nor parent
C30_PlainDefinitions ==
    call.op = "add_class" /\ PropertiesOf(call.payload) = DOMAIN call.payload =>
        /\ Accepted <=> Acceptable(before, call.name, call.payload)
        /\ ~Accepted => DATA.classes = before.classes

\* a rejected definition leaves the model as it was, whatever it carries
C30_RejectedUnchanged ==
    call.op = "add_class" /\ call.result # "ok" => DATA = before

(***************************************************************************)
(* C31: loading a model that lacks a required top-level section fails with *)
(* the invalid-model error, while a model that lacks only filters or       *)
(* schedules is accepted and its filters and schedules read as empty.      *)
(***************************************************************************)
Lacking(file) == RequiredSections \ DOMAIN file

C31_LoadChecked ==
    /\ call.op = "read" =>
          IF Lacking(call.payload) # {}
          THEN call.result = "GridlabdModelError"
          ELSE call.result = "ok" /\ DATA = call.payload
    /\ call.op = "get_filters" /\ DATA # None /\ "filters" \notin DOMAIN DATA =>
          call.result = "ok" /\ call.value = <<>>
    /\ call.op = "get_schedules" /\ DATA # None /\ "schedules" \notin DOMAIN DATA =>
          call.result = "ok" /\ call.value = <<>>

\* a file that lacks a required section is refused, and one that lacks only
\* the optional sections is the model after the call
C31_LoadRefusesOrAccepts ==
    call.op = "read" =>
        IF Lacking(call.payload) # {}
        THEN call.result # "ok"
        ELSE call.result = "ok" /\ DATA = call.payload

(***************************************************************************)
(* C32: isa_class(name, kindof) is true exactly when kindof is name itself *)
(* or an ancestor of name along the parent chain, at any distance and not  *)
(* only the root of the chain, and false otherwise.                        *)
(***************************************************************************)
C32_IsaAnyAncestor ==
    (/\ call.op = "isa_class"
     /\ Has(DATA.classes, call.args[1])
     /\ ~Cyclic(DATA, call.args[1]))
        => /\ call.result = "ok"
           /\ call.value = (call.args[2] \in ChainOf(DATA, call.args[1], Len(DATA.classes)))

\* the class of the chain that has no parent
RootOf(data, name) ==
    CHOOSE c \in ChainOf(data, name, Len(data.classes)) :
        "parent" \notin DOMAIN Get(data.classes, c)

\* what is returned is the comparison with the root of the chain
C32_IsaRootOnly ==
    (/\ call.op = "isa_class"
     /\ Has(DATA.classes, call.args[1])
     /\ ~Cyclic(DATA, call.args[1]))
        => /\ call.result = "ok"
           /\ call.value = (call.args[2] = RootOf(DATA, call.args[1]))

(***************************************************************************)
(* C33: within one session the engine version is fixed by the first        *)
(* successful run: every later successful run yields a payload whose       *)
(* application is "gridlabd" and whose version is that first version, and  *)
(* a run that returns another application or version produces no model.    *)
(***************************************************************************)
C33_VersionPinned ==
    /\ \A i \in DOMAIN assigned :
          /\ assigned[i].application = "gridlabd"
          /\ assigned[i].version = assigned[1].version
    /\ (/\ call.op = "GldRunner"
        /\ \/ call.payload.application # "gridlabd"
           \/ Truthy(before.VERSION) /\ call.payload.version # before.VERSION)
          => call.result # "ok" /\ DATA = before
    /\ Truthy(DATA.VERSION) => assigned # <<>> /\ DATA.VERSION = assigned[1].version

\* a second run that returns the pinned version is accepted
C33_Witness ==
    /\ Len(assigned) = 2
    /\ call.op = "GldRunner" /\ call.result = "ok"
    /\ before.VERSION = "4.3" /\ call.payload.version = "4.3"

(***************************************************************************)
(* C34: delete_object(name) for a name that is not a key of objects fails  *)
(* with NoSuchEntity and leaves the model unchanged, in every model, also  *)
(* one where some object holds a dangling reference to that name.          *)
(***************************************************************************)
DeletesAbsent == Named(<<"delete", "object">>) /\ ~Has(before.objects, call.kwargs.name)

C34_AbsentNoEntity ==
    DeletesAbsent => call.result = "GridlabdNoEntity" /\ DATA = before

\* the call fails and changes nothing; the error is NoEntity where no
\* reference to the name is found and every property type resolves
C34_AbsentRefused ==
    DeletesAbsent =>
        /\ Failed /\ DATA = before
        /\ WellTyped(before) /\ ~HasInbound(before, call.kwargs.name)
              => call.result = "GridlabdNoEntity"
        /\ WellTyped(before) /\ HasInbound(before, call.kwargs.name)
              => call.result = "GridlabdEntityInUse"

\* the dangling reference of the claim: the name is absent and reported in use
C34_DanglingReached == DeletesAbsent /\ call.result = "GridlabdEntityInUse"

(***************************************************************************)
(* C35: in every state reached from a model without objects by a sequence  *)
(* of insert_object and delete_object commands, no two objects of the      *)
(* model have the same id.                                                 *)
(***************************************************************************)
\* the objects of the model that carry the id
Carrying(data, id) ==
    {i \in DOMAIN data.objects :
        "id" \in DOMAIN data.objects[i][2] /\ data.objects[i][2].id = id}

StoredIdsDistinct(data) ==
    \A i \in DOMAIN data.objects :
        "id" \in DOMAIN data.objects[i][2]
            => Carrying(data, data.objects[i][2].id) = {i}

C35_NothingStored ==
    IsCommand(<<"insert", "object">>) \/ IsCommand(<<"delete", "object">>)
        => DATA.objects = <<>> /\ Failed

(***************************************************************************)
(* C36: starting from a model in which every object's class is defined,    *)
(* after any sequence of the editor's commands insert_object,              *)
(* delete_object, delete_class and insert_module the class of every object *)
(* is still a key of classes.                                              *)
(***************************************************************************)
C36_ClassesDefined ==
    \A i \in DOMAIN DATA.objects : Has(DATA.classes, DATA.objects[i][2].class)

\* the delete of a class that an object instantiates was asked for and refused
C36_Witness ==
    /\ Named(<<"delete", "class">>)
    /\ Instances(before, call.kwargs.name) # {}
    /\ call.result = "GridlabdEntityInUse"

\* a class without instances is deleted while the model holds objects
C36_UnusedDeleted ==
    /\ Named(<<"delete", "class">>) /\ call.result = "ok"
    /\ DATA.objects # <<>> /\ ~Has(DATA.classes, call.kwargs.name)

(***************************************************************************)
(* C37: a cascading delete (delete_module, delete_class) called with a     *)
(* policy outside fail, delete, ignore always fails and leaves the model   *)
(* unchanged, whether or not a dependent entity exists.                    *)
(***************************************************************************)
InvalidPolicy ==
    /\ call.op \in {"delete_module", "delete_class"}
    /\ call.found \notin {"fail", "delete", "ignore"}

\* the classes of the module, the objects of the class
Dependents(data) ==
    IF call.op = "delete_module"
    THEN {i \in DOMAIN data.classes :
            "module" \in DOMAIN data.classes[i][2] /\ data.classes[i][2].module = call.name}
    ELSE Instances(data, call.name)

C37_InvalidPolicyRefused == InvalidPolicy => Failed /\ DATA = before

\* with a dependent entity the call is refused
C37_RefusedWithDependents ==
    InvalidPolicy /\ Dependents(before) # {} => Failed /\ DATA = before

\* without one the policy is not looked at: an entity that exists is deleted
C37_DeletedWithoutDependents ==
    (/\ InvalidPolicy /\ Dependents(before) = {}
     /\ call.op = "delete_class" /\ Has(before.classes, call.name)
     /\ \A i \in DOMAIN before.objects : "class" \in DOMAIN before.objects[i][2])
        => call.result = "ok" /\ ~Has(DATA.classes, call.name)

(***************************************************************************)
(* C38: delete_global(name) removes exactly the global called name: every  *)
(* other global keeps its entry and content, and the globals collection    *)
(* itself remains present in the model.                                    *)
(***************************************************************************)
C38_DeleteGlobalExact ==
    call.op = "delete_global" /\ "globals" \in DOMAIN before =>
        /\ "globals" \in DOMAIN DATA
        /\ ~Has(DATA.globals, call.name)
        /\ \A i \in DOMAIN before.globals :
              before.globals[i][1] # call.name =>
                  /\ Has(DATA.globals, before.globals[i][1])
                  /\ Get(DATA.globals, before.globals[i][1]) = before.globals[i][2]

\* what the call does: the whole collection is gone, the rest is kept
C38_CollectionRemoved ==
    call.op = "delete_global" /\ "globals" \in DOMAIN before =>
        /\ call.result = "ok"
        /\ DOMAIN DATA = DOMAIN before \ {"globals"}
        /\ \A k \in DOMAIN DATA : DATA[k] = before[k]

(***************************************************************************)
(* C39: after a successful insert_global(name, type, access, value=v) the  *)
(* stored global has exactly the supplied type, access and value v; the    *)
(* defaults (type char1024, access PUBLIC, empty value) are used only for  *)
(* the fields the caller did not supply.                                   *)
(***************************************************************************)
Supplied(kwargs, field, default) ==
    IF field \in DOMAIN kwargs THEN kwargs[field] ELSE default

C39_SuppliedStored ==
    call.op = "insert_global" /\ call.result = "ok" =>
        /\ Has(DATA.globals, call.name)
        /\ Get(DATA.globals, call.name) =
              [type |-> Supplied(call.payload, "type", "char1024"),
               access |-> Supplied(call.payload, "access", "PUBLIC"),
               value |-> Supplied(call.payload, "value", "")]

\* what the call does: the type and the access are the supplied ones, the
\* value is stored only when the keyword values is passed as well
C39_ValueNeedsValues ==
    call.op = "insert_global" /\ call.result = "ok" =>
        /\ Has(DATA.globals, call.name)
        /\ Get(DATA.globals, call.name) =
              [type |-> Supplied(call.payload, "type", "char1024"),
               access |-> Supplied(call.payload, "access", "PUBLIC"),
               value |-> IF "values" \in DOMAIN call.payload
                         THEN call.payload.value ELSE ""]

\* a value passed together with values is stored
C39_ValueStored ==
    /\ call.op = "insert_global" /\ call.result = "ok"
    /\ "values" \in DOMAIN call.payload
    /\ Get(DATA.globals, call.name).value = "2"
====
